---- MODULE Spec2Model ----
(***************************************************************************)
(* Bank of Maharashtra loan assistant: the retrieval-augmented generation  *)
(* pipeline.  Two programs share two persisted artifacts (index.faiss and  *)
(* docstore.json):                                                         *)
(*   - rag_pipeline/chunk_and_embed.py  main()       the index builder     *)
(*   - rag_pipeline/rag_engine.py      query_rag()  the query path         *)
(* Text is modelled as a sequence of one-character strings, so that strip, *)
(* lower, startswith, split and join are computed, not assumed.            *)
(***************************************************************************)
EXTENDS Integers, Sequences, FiniteSets, TLC

VARIABLES
    idxFile,    \* rag_pipeline/faiss_index/index.faiss on disk
    docFile,    \* rag_pipeline/faiss_index/docstore.json on disk
    call,       \* per caller: the frame of its query_rag call
    build,      \* the frame of chunk_and_embed.main()
    loadsDone   \* successful load_faiss_and_metadata() returns in this process

vars == <<idxFile, docFile, call, build, loadsDone>>

----------------------------------------------------------------------------
(* Bounds of the model *)

MaxQLen == 4        \* longest question typed by a caller
MaxRows == 2        \* most rows of an index / docstore put in place by hand
MaxPieces == 2      \* most chunks the splitter yields for one document
NumRequests == 2    \* callers of query_rag in one process
MaxLoadsCounted == 2 \* loadsDone saturates here

(* Program constants *)
TOP_K_DEFAULT == 3
FormatLenThreshold == 200
FormatDotThreshold == 3

----------------------------------------------------------------------------
(* Text helpers: Python str methods on sequences of characters *)

Whitespace == {" ", "\t", "\n", "\r"}

UpperAlpha == <<"A","B","C","D","E","F","G","H","I","J","K","L","M",
                "N","O","P","Q","R","S","T","U","V","W","X","Y","Z">>
LowerAlpha == <<"a","b","c","d","e","f","g","h","i","j","k","l","m",
                "n","o","p","q","r","s","t","u","v","w","x","y","z">>

LowerChar(c) ==
    IF \E i \in 1..26 : UpperAlpha[i] = c
    THEN LowerAlpha[CHOOSE i \in 1..26 : UpperAlpha[i] = c]
    ELSE c

\* str.lower()
Lower(s) == [i \in 1..Len(s) |-> LowerChar(s[i])]

RECURSIVE LStrip(_)
LStrip(s) ==
    IF s # <<>> /\ Head(s) \in Whitespace THEN LStrip(Tail(s)) ELSE s

RECURSIVE RStrip(_)
RStrip(s) ==
    IF s # <<>> /\ s[Len(s)] \in Whitespace
    THEN RStrip(SubSeq(s, 1, Len(s) - 1))
    ELSE s

\* str.strip()
Strip(s) == RStrip(LStrip(s))

\* str.startswith(p)
StartsWith(s, p) == Len(s) >= Len(p) /\ SubSeq(s, 1, Len(p)) = p

\* str.count(c) for a one-character c
Count(s, c) == Cardinality({i \in 1..Len(s) : s[i] = c})

RECURSIVE Join(_, _)
\* sep.join(parts)
Join(parts, sep) ==
    IF parts = <<>> THEN <<>>
    ELSE IF Len(parts) = 1 THEN parts[1]
    ELSE parts[1] \o sep \o Join(Tail(parts), sep)

RECURSIVE SeqsUpTo(_, _)
SeqsUpTo(S, n) ==
    IF n = 0 THEN {<<>>}
    ELSE LET shorter == SeqsUpTo(S, n - 1)
         IN  shorter \cup {Append(s, x) : s \in {t \in shorter : Len(t) = n - 1}, x \in S}

----------------------------------------------------------------------------
(* rag_engine.py: sanitising and the greeting short-circuit *)

sanitize_user_input(user_input) == Strip(user_input)

greetings == <<
    <<"h","e","l","l","o">>,
    <<"h","i">>,
    <<"h","e","y">>,
    <<"g","o","o","d"," ","m","o","r","n","i","n","g">>,
    <<"g","o","o","d"," ","a","f","t","e","r","n","o","o","n">>,
    <<"g","o","o","d"," ","e","v","e","n","i","n","g">>,
    <<"g","r","e","e","t","i","n","g","s">>,
    <<"n","a","m","a","s","t","e">>,
    <<"h","o","l","a">>,
    <<"b","o","n","j","o","u","r">>,
    <<"h","i","i">> >>

\* the bug: only the exact word is taken for a greeting
GreetingMatchExactOnly(s, g) == s = g

GreetingMatch(s, g) == s = g \/ StartsWith(s, g \o <<" ">>)

is_greeting(user_input) ==
    LET user_input_lower == Strip(Lower(user_input))
    IN  \E n \in 1..Len(greetings) : GreetingMatch(user_input_lower, greetings[n])

(* The fixed user-facing strings, each one token *)
MsgEmpty    == <<"Please enter a valid question.">>
MsgGreeting == <<"Hello! How can I assist you with your Bank of Maharashtra loan queries today?">>
MsgLoad     == <<"System error: Unable to load knowledge base.">>
MsgEmbed    == <<"System error: Unable to process your question.">>
MsgSearch   == <<"System error: Unable to retrieve relevant information.">>
MsgNoInfo   == <<"Sorry, I couldn't find relevant information for your question.">>
MsgGenerate == <<"System error: Unable to generate an answer at this time.">>

FixedMessages ==
    {MsgEmpty, MsgGreeting, MsgLoad, MsgEmbed, MsgSearch, MsgNoInfo, MsgGenerate}

----------------------------------------------------------------------------
(* rag_engine.py: format_answer_user_friendly *)

Digits == {"0","1","2","3","4","5","6","7","8","9"}
SentenceEnd == {".", "!", "?"}
Header == <<"Here are the key points:", "\n">>
Bullet == <<"BULLET", " ">>

RECURSIVE SplitOn(_, _)
\* str.split(c) for a one-character c
SplitOn(s, c) ==
    IF \A i \in 1..Len(s) : s[i] # c THEN <<s>>
    ELSE LET i == CHOOSE k \in 1..Len(s) : s[k] = c /\ \A j \in 1..(k - 1) : s[j] # c
         IN  <<SubSeq(s, 1, i - 1)>> \o SplitOn(SubSeq(s, i + 1, Len(s)), c)

\* the end of the whitespace run that starts at position i
RECURSIVE RunEnd(_, _)
RunEnd(s, i) ==
    IF i < Len(s) /\ s[i + 1] \in Whitespace THEN RunEnd(s, i + 1) ELSE i

RECURSIVE SentenceSplit(_)
\* re.split(r'(?<=[.!?])\s+', s)
SentenceSplit(s) ==
    LET starts == {i \in 2..Len(s) : s[i - 1] \in SentenceEnd /\ s[i] \in Whitespace}
    IN  IF starts = {} THEN <<s>>
        ELSE LET i == CHOOSE k \in starts : \A j \in starts : k <= j
                 e == RunEnd(s, i)
             IN  <<SubSeq(s, 1, i - 1)>> \o SentenceSplit(SubSeq(s, e + 1, Len(s)))

RECURSIVE LeadingDigits(_)
LeadingDigits(s) ==
    IF s # <<>> /\ Head(s) \in Digits THEN 1 + LeadingDigits(Tail(s)) ELSE 0

\* re.sub(r'^\d+[\.\)]\s*', '', line)
StripEnumeration(line) ==
    LET d == LeadingDigits(line)
    IN  IF d >= 1 /\ d < Len(line) /\ line[d + 1] \in {".", ")"}
        THEN LStrip(SubSeq(line, d + 2, Len(line)))
        ELSE line

\* [line.strip() for line in parts if line.strip()]
NonEmptyStripped(parts) ==
    LET stripped == [i \in 1..Len(parts) |-> Strip(parts[i])]
    IN  SelectSeq(stripped, LAMBDA l : l # <<>>)

RECURSIVE Bulleted(_)
Bulleted(lines) ==
    IF lines = <<>> THEN <<>>
    ELSE Bullet \o StripEnumeration(Head(lines)) \o <<"\n">> \o Bulleted(Tail(lines))

format_answer_user_friendly(raw) ==
    LET answer == Strip(raw)
        lines == IF \E i \in 1..Len(answer) : answer[i] = "\n"
                 THEN NonEmptyStripped(SplitOn(answer, "\n"))
                 ELSE NonEmptyStripped(SentenceSplit(answer))
    IN  IF Len(answer) < FormatLenThreshold /\ Count(answer, ".") < FormatDotThreshold
        THEN answer
        ELSE IF Len(lines) <= 1 THEN answer
        ELSE Strip(Header \o Bulleted(lines))

----------------------------------------------------------------------------
(* The vector index: faiss.IndexFlatL2 over one-dimensional vectors *)

Vectors == {0, 1}

Dist(v, q) == (v - q) * (v - q)

RECURSIVE Nearest(_, _, _, _)
\* the k nearest rows, nearest first, ties to the lower row; labels are
\* 0-based, and -1 fills the places for which the index has no row left
Nearest(rows, q, k, taken) ==
    IF k <= 0 THEN <<>>
    ELSE LET cand == (1..Len(rows)) \ taken
         IN  IF cand = {} THEN <<-1>> \o Nearest(rows, q, k - 1, taken)
             ELSE LET best == CHOOSE i \in cand : \A j \in cand :
                                  \/ Dist(rows[i], q) < Dist(rows[j], q)
                                  \/ Dist(rows[i], q) = Dist(rows[j], q) /\ i <= j
                  IN  <<best - 1>> \o Nearest(rows, q, k - 1, taken \cup {best})

\* index.search(query_emb, top_k): I[0]
IndexSearch(rows, q, k) == Nearest(rows, q, k, {})

\* Python list indexing chunks[i]: a negative i counts from the end
PyItem(chunks, i) == IF i >= 0 THEN chunks[i + 1] ELSE chunks[Len(chunks) + i + 1]
PyItemRaises(chunks, i) == i >= Len(chunks) \/ i < 0 - Len(chunks)

\* the rows kept by  [chunks[i] for i in I[0] if i < len(chunks)]
RowKept(chunks, i) == i < Len(chunks)

KeptLabels(chunks, I) == SelectSeq(I, LAMBDA i : RowKept(chunks, i))

HasChunkKey(c) == "chunk" \in DOMAIN c
----------------------------------------------------------------------------
(* The persisted artifacts.  A file is absent, partial (a write that       *)
(* stopped half way: it exists, and reading it raises) or ok.              *)

AbsentIndex  == [state |-> "absent",  rows |-> <<>>]
PartialIndex == [state |-> "partial", rows |-> <<>>]
OkIndex(rows) == [state |-> "ok", rows |-> rows]

AbsentDoc  == [state |-> "absent",  chunks |-> <<>>]
PartialDoc == [state |-> "partial", chunks |-> <<>>]
OkDoc(chunks) == [state |-> "ok", chunks |-> chunks]

\* os.path.exists
Exists(f) == f.state # "absent"

(* Chunk records as docstore.json holds them *)
ChunkRecord(text, filename, i) ==
    [chunk |-> text, filename |-> filename, chunk_id |-> <<filename, "_chunk_", i>>]

\* a record of a docstore not written by the builder: no 'chunk' key
ForeignRecord == [filename |-> "A.txt"]

(* Inputs *)
Requests == 1..NumRequests

Alphabet == {"H", "i", " "}
Questions == SeqsUpTo(Alphabet, MaxQLen)
FewQuestions == {<<>>, <<"H", "i">>, <<"i", "H">>, <<" ", "H", " ">>}

TopKs == 1..TOP_K_DEFAULT

HandTexts == {<<"a">>, <<" ">>}
HandRecords == {ChunkRecord(t, "A.txt", 0) : t \in HandTexts} \cup {ForeignRecord}
HandIndexFiles == {PartialIndex} \cup {OkIndex(rows) : rows \in SeqsUpTo(Vectors, MaxRows)}
HandDocFiles == {PartialDoc} \cup {OkDoc(cs) : cs \in SeqsUpTo(HandRecords, MaxRows)}

OneIndexFile == {OkIndex(<<1>>)}
OneDocFile == {OkDoc(<<ChunkRecord(<<"a">>, "A.txt", 0)>>)}

\* what the generation service may answer
RawAnswers == {
    <<" ", "o", "k", ".", " ">>,
    <<"a", ".", " ", "b", ".", " ", " ", "c", ".">>,
    <<"1", ".", " ", "a", ".", "\n", "\n", "2", ")", " ", "b", ".">> }

----------------------------------------------------------------------------
(* rag_engine.py: the frame of one query_rag call *)

NoCalls == [load |-> 0, embed |-> 0, generate |-> 0, audit |-> 0]

NoResult == [answer |-> <<>>, chunks |-> <<>>, tuple |-> FALSE]

IdleCall == [
    pc |-> "idle",
    asked |-> <<>>,            \* the argument as the caller gave it
    user_question |-> <<>>,
    top_k |-> TOP_K_DEFAULT,
    return_chunks |-> FALSE,
    loaded |-> FALSE,          \* index, chunks are bound
    index |-> <<>>,
    chunks |-> <<>>,
    query_emb |-> -1,
    I |-> <<>>,
    retrieved_chunks |-> <<>>,
    context |-> <<>>,
    raw_answer |-> <<>>,       \* response.text
    answer |-> <<>>,
    result |-> NoResult,
    raised |-> FALSE,          \* an exception left query_rag
    failed |-> "none",         \* the stage whose except clause ran
    audit_failed |-> FALSE,
    calls |-> NoCalls ]        \* external calls made by this call

\* (x, []) if return_chunks else x   /   (answer, [c['chunk'] ...]) or answer
Returned(answer, texts, return_chunks) ==
    [answer |-> answer,
     chunks |-> IF return_chunks THEN texts ELSE <<>>,
     tuple |-> return_chunks]

Finish(c, answer, texts) ==
    [c EXCEPT !.pc = "done", !.result = Returned(answer, texts, c.return_chunks)]

\* the bug: the except clause re-raises instead of returning the message
FailRaising(c, stage, msg) ==
    [c EXCEPT !.pc = "done", !.raised = TRUE, !.failed = stage]

Fail(c, stage, msg) ==
    [Finish(c, msg, <<>>) EXCEPT !.failed = stage]

\* lines 107-118: sanitise, then the two short-circuits
Entered(q, k, rc) ==
    LET user_question == sanitize_user_input(q)
        c == [IdleCall EXCEPT !.asked = q, !.user_question = user_question,
                              !.top_k = k, !.return_chunks = rc]
    IN  IF user_question = <<>> THEN Finish(c, MsgEmpty, <<>>)
        ELSE IF is_greeting(user_question) THEN Finish(c, MsgGreeting, <<>>)
        ELSE [c EXCEPT !.pc = "load"]

Receive(r, q, k, rc) ==
    /\ call[r].pc = "idle"
    /\ call' = [call EXCEPT ![r] = Entered(q, k, rc)]
    /\ UNCHANGED <<idxFile, docFile, build, loadsDone>>

\* load_faiss_and_metadata raises: a file is missing (line 39), or
\* read_index / json.load raises on what it finds (line 47), or I/O fails
LoadRaises(idx, doc, io_fault) ==
    \/ ~Exists(idx) \/ ~Exists(doc)
    \/ idx.state = "partial" \/ doc.state = "partial"
    \/ io_fault

\* the bug: the except clause of line 122 lacks its return
AfterLoadFallsThrough(c, idx, doc, io_fault) ==
    LET c1 == [c EXCEPT !.calls.load = @ + 1]
    IN  IF LoadRaises(idx, doc, io_fault)
        THEN [Fail(c1, "load", MsgLoad) EXCEPT !.pc = "embed"]
        ELSE [c1 EXCEPT !.pc = "embed", !.loaded = TRUE,
                        !.index = idx.rows, !.chunks = doc.chunks]

\* the bug: the handle is handed over with only the index bound
AfterLoadHalfBound(c, idx, doc, io_fault) ==
    LET c1 == [c EXCEPT !.calls.load = @ + 1]
    IN  IF LoadRaises(idx, doc, io_fault) THEN Fail(c1, "load", MsgLoad)
        ELSE [c1 EXCEPT !.pc = "embed", !.loaded = TRUE, !.index = idx.rows]

AfterLoad(c, idx, doc, io_fault) ==
    LET c1 == [c EXCEPT !.calls.load = @ + 1]
    IN  IF LoadRaises(idx, doc, io_fault) THEN Fail(c1, "load", MsgLoad)
        ELSE [c1 EXCEPT !.pc = "embed", !.loaded = TRUE,
                        !.index = idx.rows, !.chunks = doc.chunks]

CountLoad(n) == IF n < MaxLoadsCounted THEN n + 1 ELSE n

\* lines 120-124
Load(r) ==
    /\ call[r].pc = "load"
    /\ \E io_fault \in BOOLEAN :
        /\ call' = [call EXCEPT ![r] = AfterLoad(call[r], idxFile, docFile, io_fault)]
        /\ loadsDone' = IF LoadRaises(idxFile, docFile, io_fault)
                        THEN loadsDone ELSE CountLoad(loadsDone)
    /\ UNCHANGED <<idxFile, docFile, build>>

AfterEmbed(c, ok, v) ==
    LET c1 == [c EXCEPT !.calls.embed = @ + 1]
    IN  IF ~ok THEN Fail(c1, "embed", MsgEmbed)
        ELSE [c1 EXCEPT !.pc = "search", !.query_emb = v]

\* lines 126-130: embed_query, the embedding service answers v or fails
Embed(r) ==
    /\ call[r].pc = "embed"
    /\ \E ok \in BOOLEAN, v \in Vectors :
        /\ (~ok => v = 0)
        /\ call' = [call EXCEPT ![r] = AfterEmbed(call[r], ok, v)]
    /\ UNCHANGED <<idxFile, docFile, build, loadsDone>>

\* line 134
Retrieve(chunks, I) ==
    LET kept == KeptLabels(chunks, I)
    IN  [j \in 1..Len(kept) |-> PyItem(chunks, kept[j])]

ChunkTexts(cs) == [j \in 1..Len(cs) |-> cs[j].chunk]

\* lines 133-135 raise: a kept label that chunks[i] rejects, or a record
\* without the 'chunk' key
SearchRaises(chunks, I) ==
    LET kept == KeptLabels(chunks, I)
    IN  \/ \E j \in 1..Len(kept) : PyItemRaises(chunks, kept[j])
        \/ \E j \in 1..Len(kept) :
              ~PyItemRaises(chunks, kept[j]) /\ ~HasChunkKey(PyItem(chunks, kept[j]))

\* line 135
Context(retrieved) == Join(ChunkTexts(retrieved), <<"\n", "\n">>)

AfterSearch(c) ==
    LET I == IndexSearch(c.index, c.query_emb, c.top_k)
        c1 == [c EXCEPT !.I = I]
    IN  IF SearchRaises(c.chunks, I) THEN Fail(c1, "search", MsgSearch)
        ELSE LET retrieved_chunks == Retrieve(c.chunks, I)
                 context == Context(retrieved_chunks)
                 c2 == [c1 EXCEPT !.retrieved_chunks = retrieved_chunks,
                                  !.context = context]
             IN  IF Strip(context) = <<>> THEN Finish(c2, MsgNoInfo, <<>>)
                 ELSE [c2 EXCEPT !.pc = "generate"]

\* lines 132-142
Search(r) ==
    /\ call[r].pc = "search"
    /\ call' = [call EXCEPT ![r] = AfterSearch(call[r])]
    /\ UNCHANGED <<idxFile, docFile, build, loadsDone>>

AfterGenerate(c, ok, raw) ==
    LET c1 == [c EXCEPT !.calls.generate = @ + 1]
    IN  IF ~ok THEN Fail(c1, "generate", MsgGenerate)
        ELSE [c1 EXCEPT !.pc = "audit", !.raw_answer = raw,
                        !.answer = format_answer_user_friendly(raw)]

\* lines 144-163: the prompt carries c.context; the service answers raw or fails
Generate(r) ==
    /\ call[r].pc = "generate"
    /\ \E ok \in BOOLEAN, raw \in RawAnswers :
        /\ (~ok => raw = CHOOSE a \in RawAnswers : TRUE)
        /\ call' = [call EXCEPT ![r] = AfterGenerate(call[r], ok, raw)]
    /\ UNCHANGED <<idxFile, docFile, build, loadsDone>>

\* the bug: line 166 outside its try, so a failed write raises
AfterAuditUncaught(c, ok) ==
    LET c1 == [c EXCEPT !.calls.audit = @ + 1, !.audit_failed = ~ok]
    IN  IF ok THEN Finish(c1, c.answer, ChunkTexts(c.retrieved_chunks))
        ELSE [c1 EXCEPT !.pc = "done", !.raised = TRUE]

AfterAudit(c, ok) ==
    LET c1 == [c EXCEPT !.calls.audit = @ + 1, !.audit_failed = ~ok]
    IN  Finish(c1, c.answer, ChunkTexts(c.retrieved_chunks))

\* lines 165-173: log_query commits or raises; either way the answer is returned
Audit(r) ==
    /\ call[r].pc = "audit"
    /\ \E ok \in BOOLEAN :
        call' = [call EXCEPT ![r] = AfterAudit(call[r], ok)]
    /\ UNCHANGED <<idxFile, docFile, build, loadsDone>>

\* the caller has the returned value; the frame is gone
Return(r) ==
    /\ call[r].pc = "done"
    /\ call' = [call EXCEPT ![r] = IdleCall]
    /\ UNCHANGED <<idxFile, docFile, build, loadsDone>>
----------------------------------------------------------------------------
(* chunk_and_embed.py: the index builder *)

FileNames == <<"A.txt", "B.txt">>
Letters == <<"a", "b">>

\* A document's text is held as the blocks the splitter cuts it into:
\* block i of document d is i+1 copies of the document's letter.
Block(d, i) == [j \in 1..(i + 1) |-> Letters[d]]
Document(d, n) == [filename |-> FileNames[d], text |-> [i \in 1..n |-> Block(d, i - 1)]]

\* the corpora Extracteddata_scriptwise may hold: up to two files
Corpora ==
    {<<>>}
    \cup {<<Document(1, n)>> : n \in 0..MaxPieces}
    \cup {<<Document(1, n), Document(2, m)>> : n \in 0..MaxPieces, m \in 0..MaxPieces}

\* splitter.split_text(doc["text"])
split_text(text) == text

\* lines 59-64: the chunks of one document, in position order
DocChunks(doc) ==
    LET chunks == split_text(doc.text)
    IN  [i \in 1..Len(chunks) |-> ChunkRecord(chunks[i], doc.filename, i - 1)]

RECURSIVE chunk_docs(_)
\* lines 56-65: all_chunks, document after document
chunk_docs(docs) ==
    IF docs = <<>> THEN <<>>
    ELSE DocChunks(Head(docs)) \o chunk_docs(Tail(docs))

\* the embedding service on a document chunk (a stand-in: it is remote)
CharWeight(ch) == IF ch = "a" THEN 1 ELSE IF ch = "b" THEN 4 ELSE 0
RECURSIVE EmbedDocument(_)
EmbedDocument(text) ==
    IF text = <<>> THEN 0 ELSE CharWeight(Head(text)) + EmbedDocument(Tail(text))

\* the bug: the new embedding is put in front
PrependEmbedding(embeddings, emb) == <<emb>> \o embeddings

\* line 78: embeddings.append(emb)
AppendEmbedding(embeddings, emb) == Append(embeddings, emb)

\* the bug: line 84 tests a docstore path that nothing is written to
SkipBuildWrongPath(idx, doc) == Exists(idx) /\ Exists(AbsentDoc)

\* line 84
SkipBuild(idx, doc) == Exists(idx) /\ Exists(doc)

NoBuildCalls == [load_files |-> 0, embed |-> 0, write_index |-> 0, write_docstore |-> 0]

IdleBuild == [
    pc |-> "idle",
    docs |-> <<>>,
    chunks |-> <<>>,
    embeddings |-> <<>>,
    outcome |-> "none",        \* "skipped", "ok" (returned), "raised"
    calls |-> NoBuildCalls ]

\* lines 119-121: log and re-raise
Raise(b) == [b EXCEPT !.pc = "done", !.outcome = "raised"]

\* lines 83-100
Started(b, idx, doc, docs, listing_ok) ==
    IF SkipBuild(idx, doc) THEN [b EXCEPT !.pc = "done", !.outcome = "skipped"]
    ELSE LET b1 == [b EXCEPT !.calls.load_files = @ + 1]
         IN  IF ~listing_ok THEN Raise(b1)
             ELSE [b1 EXCEPT !.pc = "embedding", !.docs = docs,
                             !.chunks = chunk_docs(docs)]

BuildStart ==
    /\ build.pc = "idle"
    /\ \E docs \in Corpora, listing_ok \in BOOLEAN :
        /\ (SkipBuild(idxFile, docFile) \/ ~listing_ok => docs = <<>>)
        /\ build' = Started(build, idxFile, docFile, docs, listing_ok)
    /\ UNCHANGED <<idxFile, docFile, call, loadsDone>>

\* the bug: a chunk the service failed on is passed over, and the build
\* goes on with the chunks embedded before it
EmbeddedOneSkipsFailed(b, ok) ==
    LET b1 == [b EXCEPT !.calls.embed = @ + 1]
        chunk == b.chunks[Len(b.embeddings) + 1]
    IN  IF ~ok THEN [b1 EXCEPT !.chunks = SubSeq(@, 1, Len(b.embeddings))]
        ELSE [b1 EXCEPT !.embeddings = AppendEmbedding(@, EmbedDocument(chunk.chunk))]

\* lines 70-78: one turn of the loop of embed_chunks
EmbeddedOne(b, ok) ==
    LET b1 == [b EXCEPT !.calls.embed = @ + 1]
        chunk == b.chunks[Len(b.embeddings) + 1]
    IN  IF ~ok THEN Raise(b1)
        ELSE [b1 EXCEPT !.embeddings = AppendEmbedding(@, EmbedDocument(chunk.chunk))]

BuildEmbed ==
    /\ build.pc = "embedding"
    /\ Len(build.embeddings) < Len(build.chunks)
    /\ \E ok \in BOOLEAN : build' = EmbeddedOne(build, ok)
    /\ UNCHANGED <<idxFile, docFile, call, loadsDone>>

\* what a write that raised leaves of the file: as it was, or a part of it
AfterFailedWrite(old, partial, torn) == IF torn THEN partial ELSE old

\* lines 79, 105-111: np.array, shape[1] (raises without a row), index.add,
\* faiss.write_index
BuildWriteIndex ==
    /\ build.pc = "embedding"
    /\ Len(build.embeddings) = Len(build.chunks)
    /\ IF build.embeddings = <<>>
       THEN /\ build' = Raise(build)
            /\ idxFile' = idxFile
       ELSE \E ok \in BOOLEAN, torn \in BOOLEAN :
            /\ (ok => ~torn)
            /\ build' = IF ok THEN [build EXCEPT !.pc = "write_docstore",
                                                 !.calls.write_index = @ + 1]
                        ELSE Raise([build EXCEPT !.calls.write_index = @ + 1])
            /\ idxFile' = IF ok THEN OkIndex(build.embeddings)
                          ELSE AfterFailedWrite(idxFile, PartialIndex, torn)
    /\ UNCHANGED <<docFile, call, loadsDone>>

\* lines 113-118: open(DOCSTORE_PATH, "w"), json.dump
BuildWriteDocstore ==
    /\ build.pc = "write_docstore"
    /\ \E ok \in BOOLEAN, torn \in BOOLEAN :
        /\ (ok => ~torn)
        /\ build' = IF ok THEN [build EXCEPT !.pc = "done", !.outcome = "ok",
                                             !.calls.write_docstore = @ + 1]
                    ELSE Raise([build EXCEPT !.calls.write_docstore = @ + 1])
        /\ docFile' = IF ok THEN OkDoc(build.chunks)
                      ELSE AfterFailedWrite(docFile, PartialDoc, torn)
    /\ UNCHANGED <<idxFile, call, loadsDone>>

\* main() has returned or raised to its caller
BuildReturn ==
    /\ build.pc = "done"
    /\ build' = IdleBuild
    /\ UNCHANGED <<idxFile, docFile, call, loadsDone>>

----------------------------------------------------------------------------
(* The operator, between runs: the artifacts are removed or replaced by    *)
(* hand.  query_rag reads them once (Load) and main() decides on them once *)
(* (BuildStart), so a change made while one of them runs is seen as a      *)
(* change made after it: the operator acts when nothing runs.              *)

Quiescent == build.pc = "idle" /\ \A r \in Requests : call[r].pc = "idle"

DeleteIndex ==
    /\ Quiescent /\ Exists(idxFile)
    /\ idxFile' = AbsentIndex
    /\ UNCHANGED <<docFile, call, build, loadsDone>>

DeleteDocstore ==
    /\ Quiescent /\ Exists(docFile)
    /\ docFile' = AbsentDoc
    /\ UNCHANGED <<idxFile, call, build, loadsDone>>

PutIndex(f) ==
    /\ Quiescent /\ idxFile # f
    /\ idxFile' = f
    /\ UNCHANGED <<docFile, call, build, loadsDone>>

PutDocstore(f) ==
    /\ Quiescent /\ docFile # f
    /\ docFile' = f
    /\ UNCHANGED <<idxFile, call, build, loadsDone>>

----------------------------------------------------------------------------
(* Specifications *)

Init ==
    /\ idxFile = AbsentIndex
    /\ docFile = AbsentDoc
    /\ call = [r \in Requests |-> IdleCall]
    /\ build = IdleBuild
    /\ loadsDone = 0

Stages(r) ==
    \/ Load(r)
    \/ Embed(r)
    \/ Search(r)
    \/ Generate(r)
    \/ Audit(r)
    \/ Return(r)

\* one caller at a time (app/main.py awaits nothing between its calls), a
\* few questions, and artifacts of every shape
Next ==
    \/ \E q \in FewQuestions, k \in TopKs, rc \in BOOLEAN : Receive(1, q, k, rc)
    \/ Stages(1)
    \/ DeleteIndex
    \/ DeleteDocstore
    \/ \E f \in HandIndexFiles : PutIndex(f)
    \/ \E f \in HandDocFiles : PutDocstore(f)

Spec == Init /\ [][Next]_vars

\* one caller, every question up to MaxQLen, one pair of artifacts
NextInput ==
    \/ \E q \in Questions, rc \in BOOLEAN : Receive(1, q, TOP_K_DEFAULT, rc)
    \/ Stages(1)
    \/ DeleteIndex
    \/ DeleteDocstore
    \/ \E f \in OneIndexFile : PutIndex(f)
    \/ \E f \in OneDocFile : PutDocstore(f)

SpecInput == Init /\ [][NextInput]_vars

\* the builder, run again and again, and the operator deleting artifacts
NextBuild ==
    \/ BuildStart
    \/ BuildEmbed
    \/ BuildWriteIndex
    \/ BuildWriteDocstore
    \/ BuildReturn
    \/ DeleteIndex
    \/ DeleteDocstore

SpecBuild == Init /\ [][NextBuild]_vars

\* several callers of query_rag at once in one process
NextConcurrent ==
    \/ \E r \in Requests : Receive(r, <<"i", "H">>, TOP_K_DEFAULT, TRUE)
    \/ \E r \in Requests : Stages(r)
    \/ DeleteIndex
    \/ \E f \in OneIndexFile : PutIndex(f)
    \/ \E f \in OneDocFile : PutDocstore(f)

SpecConcurrent == Init /\ [][NextConcurrent]_vars
----------------------------------------------------------------------------
(* Properties *)

Min(a, b) == IF a <= b THEN a ELSE b

NoDuplicates(s) == \A i, j \in 1..Len(s) : i # j => s[i] # s[j]

\* the greeting rule as the specification words it: equal to a greeting
\* word whatever the case, or beginning with one and then a space
GreetingWords == {greetings[n] : n \in 1..Len(greetings)}
SaidGreeting(q) ==
    LET t == Lower(Strip(q))
    IN  \E g \in GreetingWords :
          \/ t = g
          \/ Len(t) > Len(g) /\ SubSeq(t, 1, Len(g)) = g /\ t[Len(g) + 1] = " "
SaidNothing(q) == \A i \in 1..Len(q) : q[i] \in Whitespace

\* C1: a question that is empty after trimming, or a greeting, gets its
\* fixed response with no retrieved chunks, and the call makes no external
\* call: no load, no embedding, no generation, no audit write.
C1_ShortCircuit ==
    \A r \in Requests :
        LET c == call[r]
        IN  c.pc # "idle" /\ (SaidNothing(c.asked) \/ SaidGreeting(c.asked)) =>
              /\ c.pc = "done"
              /\ c.result = [answer |-> IF SaidNothing(c.asked) THEN MsgEmpty ELSE MsgGreeting,
                             chunks |-> <<>>, tuple |-> c.return_chunks]
              /\ c.calls = NoCalls
              /\ ~c.loaded /\ ~c.raised

C1_Witness ==
    \E r \in Requests :
        /\ call[r].pc = "done"
        /\ call[r].asked = <<"H", "i", " ", "i">>
        /\ call[r].return_chunks
        /\ call[r].result.answer = MsgGreeting
\* the stages of a call in the order of the code
StageOrder == <<"idle", "load", "embed", "search", "generate", "audit", "done">>
StageRank(pc) == CHOOSE n \in 1..Len(StageOrder) : StageOrder[n] = pc

\* C2: whatever fails (load, embedding, search, generation, audit write),
\* no exception leaves query_rag: every step of a call moves it forward
\* through the stages to the return of a value, and a failure of load,
\* embed, search or generate returns one of the fixed user-facing strings.
C2_NoExceptionEscapes ==
    [][ \A r \in Requests :
          LET c == call'[r]
          IN  /\ ~c.raised
              /\ \E n \in 1..Len(StageOrder) : StageOrder[n] = c.pc
              /\ c.pc # call[r].pc =>
                    \/ StageRank(c.pc) > StageRank(call[r].pc)
                    \/ call[r].pc = "done" /\ c.pc = "idle"
              /\ c.failed # "none" =>
                    /\ c.pc = "done"
                    /\ c.failed \in {"load", "embed", "search", "generate"}
                    /\ c.result.answer \in FixedMessages
                    /\ c.result.chunks = <<>>
                    /\ c.result.tuple = c.return_chunks
              /\ c.audit_failed => c.pc = "done" /\ c.result.answer = c.answer ]_vars

C2_Witness ==
    \E r \in Requests :
        /\ call[r].pc = "done"
        /\ call[r].failed = "search"
        /\ call[r].result.answer = MsgSearch
        /\ call[r].return_chunks

\* the row numbers among the labels I: those inside the store's bounds
RowsInBounds(chunks, I) == SelectSeq(I, LAMBDA i : 0 <= i /\ i < Len(chunks))

\* the search step of a call has run to its end without raising
Searched(c) == c.I # <<>> /\ c.failed # "search"

\* C3: the search step discards every returned label outside the store's
\* bounds 0..len(chunks)-1, the -1 of a missing neighbour included: the
\* retrieved list has at most min(k, n) entries, each the store entry at a
\* valid row the search returned, none twice, nearest first.
C3_OutOfBoundsDiscarded ==
    \A r \in Requests :
        LET c == call[r]
            rows == RowsInBounds(c.chunks, c.I)
        IN  Searched(c) =>
              /\ Len(c.retrieved_chunks) <= Min(c.top_k, Len(c.index))
              /\ NoDuplicates(rows)
              /\ c.retrieved_chunks = [j \in 1..Len(rows) |-> c.chunks[rows[j] + 1]]
\* the two files are what one build writes: as many rows as chunks, row i
\* the embedding of chunk i
MatchingPair(idx, doc) ==
    /\ idx.state = "ok" /\ doc.state = "ok"
    /\ Len(idx.rows) = Len(doc.chunks)
    /\ \A i \in 1..Len(doc.chunks) :
          /\ HasChunkKey(doc.chunks[i])
          /\ idx.rows[i] = EmbedDocument(doc.chunks[i].chunk)

\* a later build takes the artifacts for built, or a later query loads them
AcceptedLater(idx, doc) == SkipBuild(idx, doc) \/ ~LoadRaises(idx, doc, FALSE)

\* C4: persisting is atomic under failure: when one of the two writes of a
\* build fails, what is left on disk is never a pair that a later run or
\* query accepts although the index and the docstore do not match.
C4_AtomicPersist ==
    build.pc = "done" /\ build.outcome = "raised" /\ build.calls.write_index >= 1 =>
        (AcceptedLater(idxFile, docFile) => MatchingPair(idxFile, docFile))

\* where a chunk record stands: its document's place in the corpus, then
\* its position in the document
DocPlace(docs, c) == CHOOSE d \in 1..Len(docs) : docs[d].filename = c.filename
Position(c) == c.chunk_id[3]

InCorpusOrder(docs, cs) ==
    /\ \A i \in 1..Len(cs) :
          /\ \E d \in 1..Len(docs) : docs[d].filename = cs[i].filename
          /\ Position(cs[i]) + 1 \in 1..Len(docs[DocPlace(docs, cs[i])].text)
          /\ cs[i].chunk = docs[DocPlace(docs, cs[i])].text[Position(cs[i]) + 1]
    /\ \A i, j \in 1..Len(cs) : i < j =>
          \/ DocPlace(docs, cs[i]) < DocPlace(docs, cs[j])
          \/ /\ DocPlace(docs, cs[i]) = DocPlace(docs, cs[j])
             /\ Position(cs[i]) < Position(cs[j])
    /\ \A d \in 1..Len(docs) : \A n \in 1..Len(docs[d].text) :
          \E i \in 1..Len(cs) : DocPlace(docs, cs[i]) = d /\ Position(cs[i]) = n - 1

\* C5: after a build that returned without raising and without skipping,
\* the persisted index and docstore are parallel arrays: as many rows as
\* chunk records, row i the embedding of record i, and the records are the
\* corpus's chunks in document order, then position order.
C5_ParallelArrays ==
    build.pc = "done" /\ build.outcome = "ok" =>
        /\ MatchingPair(idxFile, docFile)
        /\ InCorpusOrder(build.docs, docFile.chunks)

C5_Witness ==
    /\ build.pc = "done" /\ build.outcome = "ok"
    /\ Len(build.docs) = 2
    /\ Len(docFile.chunks) = 3
    /\ idxFile.rows = <<1, 2, 4>>

\* C8: when main starts on a valid persisted pair it returns having
\* skipped: the corpus is not loaded, the embedding service is not called,
\* nothing is written, and both artifacts are as they were; so any number
\* of runs after a successful build leaves what the one build wrote.
C8_SkipWhenBuilt ==
    [][ build.pc = "idle" /\ build'.pc # "idle" /\ MatchingPair(idxFile, docFile) =>
          /\ build'.pc = "done" /\ build'.outcome = "skipped"
          /\ build'.calls = NoBuildCalls
          /\ build'.chunks = <<>> /\ build'.embeddings = <<>>
          /\ idxFile' = idxFile /\ docFile' = docFile ]_vars

C8_Witness ==
    /\ build.pc = "done" /\ build.outcome = "skipped"
    /\ MatchingPair(idxFile, docFile)
    /\ Len(idxFile.rows) = 3
C7_AuditFailureSwallowed ==
    \A r \in Requests :
        LET c == call[r]
        IN  c.calls.audit >= 1 =>
              /\ c.pc = "done" /\ ~c.raised /\ c.failed = "none"
              /\ c.calls.audit = 1
              /\ c.result.answer = format_answer_user_friendly(c.raw_answer)
              /\ c.result.tuple = c.return_chunks
              /\ c.result.chunks =
                    IF c.return_chunks
                    THEN [j \in 1..Len(c.retrieved_chunks) |-> c.retrieved_chunks[j].chunk]
                    ELSE <<>>

C7_Witness ==
    \E r \in Requests :
        /\ call[r].pc = "done" /\ call[r].audit_failed
        /\ call[r].return_chunks
        /\ Len(call[r].result.chunks) = 2
        /\ Len(call[r].result.answer) > Len(call[r].raw_answer)

\* C9: the stages run in the order load, embed, search, generate, audit;
\* the first stage to fail returns its own fixed message with an empty chunk
\* list, and no later stage runs in that call.  A query made while an
\* artifact is deleted returns the load-error message.
C9_FirstFailureEndsCall ==
    \A r \in Requests :
        LET c == call[r]
            searched == c.I # <<>>
        IN  /\ c.failed = "load" =>
                  /\ c.result.answer = MsgLoad /\ c.result.chunks = <<>>
                  /\ c.calls = [NoCalls EXCEPT !.load = 1] /\ ~searched
            /\ c.failed = "embed" =>
                  /\ c.result.answer = MsgEmbed /\ c.result.chunks = <<>>
                  /\ c.calls = [NoCalls EXCEPT !.load = 1, !.embed = 1] /\ ~searched
            /\ c.failed = "search" =>
                  /\ c.result.answer = MsgSearch /\ c.result.chunks = <<>>
                  /\ c.calls = [NoCalls EXCEPT !.load = 1, !.embed = 1] /\ searched
            /\ c.failed = "generate" =>
                  /\ c.result.answer = MsgGenerate /\ c.result.chunks = <<>>
                  /\ c.calls = [NoCalls EXCEPT !.load = 1, !.embed = 1, !.generate = 1]
                  /\ searched
            /\ c.failed # "none" => c.pc = "done"
            /\ c.calls.embed >= 1 => c.calls.load = 1 /\ c.loaded
            /\ searched => c.calls.embed = 1 /\ c.query_emb \in Vectors
            /\ c.calls.generate >= 1 => searched
            /\ c.calls.audit >= 1 => c.calls.generate = 1 /\ c.failed = "none"
            /\ c.calls.load >= 1 /\ (~Exists(idxFile) \/ ~Exists(docFile)) =>
                  c.pc = "done" /\ c.failed = "load" /\ c.result.answer = MsgLoad

C9_Witness ==
    \E r \in Requests :
        /\ call[r].pc = "done" /\ call[r].failed = "load"
        /\ ~Exists(idxFile) /\ docFile.state = "ok"
        /\ call[r].return_chunks
        /\ loadsDone >= 1

\* C10: a context that is empty or only whitespace, and so every load of an
\* index with no entries, ends the call with the "couldn't find relevant
\* information" answer and no chunks; the generation service is only ever
\* called with a context that is not blank.
C10_NoBlankContextGenerated ==
    \A r \in Requests :
        LET c == call[r]
        IN  /\ Searched(c) /\ (Strip(c.context) = <<>> \/ c.index = <<>>) =>
                  /\ c.pc = "done"
                  /\ c.result.answer = MsgNoInfo /\ c.result.chunks = <<>>
                  /\ c.calls.generate = 0
            /\ c.calls.generate >= 1 => Strip(c.context) # <<>>

\* the embedding service has failed in this run of main(): it was called
\* for more chunks than it returned embeddings for
EmbedFailed(b) == b.calls.embed > Len(b.embeddings)

\* the rows a complete index of these chunk records holds
AllEmbeddings(chunks) == [i \in 1..Len(chunks) |-> EmbedDocument(chunks[i].chunk)]

\* C11: when the embedding service fails for a chunk during a build, main
\* raises to its caller at once and that run writes neither file: the
\* artifacts stay as the run found them, and an index is only ever put in
\* place with a row for every chunk of the corpus, never for just the
\* chunks embedded before a failure.
C11_EmbedFailureAbortsBuild ==
    [][ /\ EmbedFailed(build') =>
              /\ build'.pc = "done" /\ build'.outcome = "raised"
              /\ build'.calls.write_index = 0 /\ build'.calls.write_docstore = 0
        /\ build'.pc # "idle" /\ build'.calls.write_index = 0 =>
              idxFile' = idxFile /\ docFile' = docFile
        /\ idxFile' # idxFile /\ idxFile'.state = "ok" =>
              /\ ~EmbedFailed(build)
              /\ build.chunks = chunk_docs(build.docs)
              /\ idxFile'.rows = AllEmbeddings(build.chunks) ]_vars

C11_Witness ==
    /\ build.pc = "done" /\ build.outcome = "raised"
    /\ EmbedFailed(build)
    /\ Len(build.embeddings) = 1 /\ Len(build.chunks) = 3
    /\ idxFile.state = "ok" /\ Len(idxFile.rows) = 2
    /\ ~Exists(docFile)
====
